---- MODULE Spec2Model ----
(***************************************************************************)
(* A model of openai_forward/content/lflogger.py: LangfuseLogger.          *)
(*                                                                         *)
(* JSON values are tagged records, so that a Python subscript, a .get, a   *)
(* truth test and a += can each be modelled with the exception the         *)
(* interpreter raises for the operand's type.  A Python call is modelled   *)
(* by an outcome [exc, v]: exc = "" and the value, or the exception name.  *)
(***************************************************************************)
EXTENDS Integers, Sequences, FiniteSets, TLC

(* ----------------------------- bounds ---------------------------------- *)

\* the number of lines that follow the header line of a streaming buffer
MaxLines == 2

(* --------------------------- JSON values ------------------------------- *)

JNull == [t |-> "null"]
JStr(s) == [t |-> "str", s |-> s]
JNum(n) == [t |-> "num", n |-> n]
JBool(b) == [t |-> "bool", b |-> b]
JList(l) == [t |-> "list", l |-> l]
JObj(o) == [t |-> "obj", o |-> o]

\* Python's None, which msg.get(key) returns for a missing key
None == JNull

\* the empty dict
EmptyDict == [k \in {} |-> JNull]

Ok(v) == [exc |-> "", v |-> v]
Raise(e) == [exc |-> e, v |-> JNull]

\* x[k] for a string key k
Sub(x, k) ==
  CASE x.t = "obj" -> IF k \in DOMAIN x.o THEN Ok(x.o[k]) ELSE Raise("KeyError")
    [] x.t \in {"list", "null", "num", "bool", "str"} -> Raise("TypeError")

\* x[0]; no string is ever subscripted by the inputs of this model
Idx0(x) ==
  CASE x.t = "list" -> IF Len(x.l) > 0 THEN Ok(x.l[1]) ELSE Raise("IndexError")
    [] x.t = "obj" -> Raise("KeyError")
    [] x.t \in {"null", "num", "bool"} -> Raise("TypeError")

\* d.get(k) of a dict d
DictGet(d, k) == IF k \in DOMAIN d.o THEN d.o[k] ELSE None

\* Python's truth value of x
Truthy(x) ==
  CASE x.t = "null" -> FALSE
    [] x.t = "str" -> x.s # ""
    [] x.t = "num" -> x.n # 0
    [] x.t = "bool" -> x.b
    [] x.t = "list" -> Len(x.l) > 0
    [] x.t = "obj" -> DOMAIN x.o # {}

\* d[k] = v on a Python dict held as a function from keys to values
SetKey(d, k, v) == [x \in DOMAIN d \cup {k} |-> IF x = k THEN v ELSE d[x]]

\* a subscript of the outcome of another: the first exception ends the chain
SubOf(r, k) == IF r.exc # "" THEN r ELSE Sub(r.v, k)
Idx0Of(r) == IF r.exc # "" THEN r ELSE Idx0(r.v)

(* ------------------------ response buffers ----------------------------- *)

\* a modelling marker for "this key is not in the object"; never a value
Absent == [t |-> "absent"]
Opt(k, v) == IF v = Absent THEN EmptyDict ELSE k :> v

\* a str that is a JSON document, and one that is not (such as "[DONE]")
Doc(v) == [json |-> TRUE, doc |-> v]
NotJson == [json |-> FALSE, doc |-> JNull]

\* a line of the buffer: the text after its "data: " marker, or a line
\* that does not start with the marker
DataLine(text) == [marker |-> TRUE, text |-> text]
OtherLine(text) == [marker |-> FALSE, text |-> text]

Usage(n) == JObj([total_tokens |-> JNum(n)])

ToolCall(id, name, args) ==
  JObj([index |-> JNum(0), id |-> JStr(id), type |-> JStr("function"),
        function |-> JObj(("name" :> JStr(name)) @@ Opt("arguments", args))])

\* the message object of a first frame
Msg(role, content, tcs) ==
  JObj(Opt("role", role) @@ Opt("content", content) @@ Opt("tool_calls", tcs))

\* a first frame: msgkey is "delta" in a stream, "message" otherwise
First(msgkey, msg, usage) ==
  JObj([created |-> JNum(1), id |-> JStr("x"), model |-> JStr("m"),
        choices |-> JList(<<JObj(msgkey :> msg)>>)] @@ Opt("usage", usage))

HeaderContents == {Absent, JNull, JStr(""), JStr("Hel")}
HeaderToolCalls ==
  {Absent, JList(<<>>),
   JList(<<ToolCall("c1", "f", JStr(""))>>),
   JList(<<ToolCall("c1", "f", JStr("{")), ToolCall("c2", "g", JStr("{}"))>>),
   JList(<<JObj([index |-> JNum(0), id |-> JStr("c1")])>>)}

\* first frames that lack what lines 84-97 read
BrokenFirsts(msgkey) ==
  {NotJson,
   Doc(JList(<<>>)),
   Doc(JObj([created |-> JNum(1), id |-> JStr("x"), model |-> JStr("m"),
             choices |-> JList(<<>>)])),
   Doc(JObj([created |-> JNum(1), model |-> JStr("m"),
             choices |-> JList(<<JObj(msgkey :> Msg(JStr("assistant"), JStr("Hel"), Absent))>>)])),
   Doc(First("text", Msg(JStr("assistant"), JStr("Hel"), Absent), Absent)),
   Doc(First(msgkey, Msg(Absent, JStr("Hel"), Absent), Absent))}

FirstTexts(msgkey, usages) ==
  BrokenFirsts(msgkey) \cup
  {Doc(First(msgkey, Msg(JStr("assistant"), c, tc), u)) :
     c \in HeaderContents, tc \in HeaderToolCalls, u \in usages} \cup
  {Doc(First(msgkey, Msg(JStr("tool"), JStr("Hel"), tc), Absent)) :
     tc \in {Absent, JList(<<ToolCall("c1", "f", JStr(""))>>)}}

\* a later frame of a stream
Frame(delta, finish, usage) ==
  Doc(JObj([choices |-> JList(<<JObj([delta |-> delta] @@ Opt("finish_reason", finish))>>)]
           @@ Opt("usage", usage)))
Content(c) == JObj(Opt("content", c))
Fragment(a) == JObj([tool_calls |-> JList(<<JObj([function |-> JObj(Opt("arguments", a))])>>)])

LaterLines ==
  {OtherLine(Frame(Content(JStr("no")), JStr("stop"), Usage(7))),
   DataLine(NotJson),
   DataLine(Doc(JList(<<>>))),
   DataLine(Doc(JObj([choices |-> JList(<<>>)]))),
   \* content frames
   DataLine(Frame(Content(JStr("lo")), JNull, Absent)),
   DataLine(Frame(Content(JStr("lo")), Absent, Absent)),
   DataLine(Frame(Content(JStr("lo")), JStr("length"), Usage(5))),
   DataLine(Frame(Content(JStr("lo")), JStr("stop"), Usage(5))),
   DataLine(Frame(Content(JStr("")), JStr("stop"), Usage(7))),
   DataLine(Frame(Content(JStr("!")), JStr("stop"), Absent)),
   DataLine(Frame(Content(JStr("!")), JStr("stop"), JObj(EmptyDict))),
   DataLine(Frame(Content(Absent), JStr("stop"), Usage(5))),
   DataLine(Frame(Content(JNull), JNull, Absent)),
   \* a frame with header fields, a role, a content and a tool_calls of its own
   DataLine(Doc(JObj([created |-> JNum(2), id |-> JStr("y"), model |-> JStr("m2"),
                      choices |-> JList(<<JObj([delta |->
                        Msg(JStr("user"), JStr("lo"),
                            JList(<<ToolCall("c9", "h", JStr("{}"))>>)),
                        finish_reason |-> JNull])>>)]))),
   \* tool-call frames
   DataLine(Frame(Fragment(JStr("{a")), JNull, Absent)),
   DataLine(Frame(Fragment(JStr(":1}")), JStr("stop"), Usage(5))),
   DataLine(Frame(Fragment(Absent), JNull, Absent)),
   DataLine(Frame(Fragment(JNull), JNull, Absent)),
   DataLine(Frame(JObj([tool_calls |-> JList(<<>>)]), JNull, Absent))}

LineSeqs(n) == UNION {[1..k -> LaterLines] : k \in 0..n}

\* the buffers: a stream is its lines, the first starting with the marker;
\* anything else is one text
StreamBuffers ==
  {<<DataLine(h)>> \o ls : h \in FirstTexts("delta", {Absent}), ls \in LineSeqs(MaxLines)}
PlainBuffers == {<<OtherLine(h)>> : h \in FirstTexts("message", {Absent, Usage(5)})}
Buffers == StreamBuffers \cup PlainBuffers

(* ------------------------- parse_bytearray ----------------------------- *)

VARIABLES
  buffer,            \* the response buffer handed to parse_bytearray
  pc,                \* "start", "loop", "returned" or "raised"
  txt_lines,         \* the lines of a streaming buffer
  stream,
  target_info,       \* the dict under construction, and the one returned
  role,
  tool_calls,        \* the first frame's tool_calls object, shared with target_info
  parse_content_key,
  stream_content,
  n,                 \* the position in txt_lines of the next line of the loop
  exc                \* the exception parse_bytearray raised, "" when none

rvars == <<buffer, pc, txt_lines, stream, target_info, role, tool_calls,
           parse_content_key, stream_content, n, exc>>

VARIABLES
  request,           \* the inbound request: its decoded JSON body and client address
  next_uid,          \* what get_unique_id() returns next
  clock,             \* what time.strftime(...) returns
  DEFAULT_REQUEST_CACHING_VALUE,   \* the configured default, settings
  p_pc,              \* "start", "returned" or "raised"
  payload,           \* the dict request.json() returned, as parse_payload leaves it
  info,              \* the first value returned
  body,              \* the second value returned: the bytes of orjson.dumps(payload)
  p_exc              \* the exception parse_payload raised, "" when none

pvars == <<request, next_uid, clock, DEFAULT_REQUEST_CACHING_VALUE, p_pc, payload,
           info, body, p_exc>>

VARIABLES
  traces,            \* self.traces: uid -> the (trace, generation) pair, by its handle
  langfuse,          \* the backend: the trace / generation pairs created, in order
  flushed,           \* whether langfuse.flush() ran after the last event
  starts,            \* per request id, the start coroutine: where it is, and its locals
  ends               \* per request id, the last end call: its outcome and its argument

lvars == <<traces, langfuse, flushed, starts, ends>>

start_token == "data: "

\* buffer.startswith(b'data: ')
startswith(buf, token) == token = start_token /\ buf[1].marker

\* the framing primitive: the lines of the buffer, in order
parse_sse_buffer(buf) == buf

\* line[start_token_len:] of a line that starts with the marker, and the whole
\* text of a buffer that does not
after_marker(line) == line.text

orjson_loads(text) == IF text.json THEN Ok(text.doc) ELSE Raise("JSONDecodeError")

\* lines 81-91: first_dict and msg
first_dict_of(buf) ==
  IF startswith(buf, "data: ")
    THEN orjson_loads(after_marker(parse_sse_buffer(buf)[1]))
    ELSE orjson_loads(after_marker(buf[1]))

msg_of(buf, first_dict) ==
  LET msgkey == IF startswith(buf, "data: ") THEN "delta" ELSE "message"
  IN  SubOf(Idx0Of(Sub(first_dict, "choices")), msgkey)

\* lines 93-98: the header fields, in the order the code reads them
header_fields(first_dict, msg) ==
  LET created == Sub(first_dict, "created")
      id == Sub(first_dict, "id")
      model == Sub(first_dict, "model")
      mrole == Sub(msg, "role")
  IN  IF created.exc # "" THEN created
      ELSE IF id.exc # "" THEN id
      ELSE IF model.exc # "" THEN model
      ELSE IF mrole.exc # "" THEN mrole
      ELSE Ok([created |-> created.v, id |-> id.v, model |-> model.v, role |-> mrole.v])

\* a discriminator that looks at the content before the tool_calls
select_tool_calls_after_content(msg) ==
  ~Truthy(DictGet(msg, "content")) /\ Truthy(DictGet(msg, "tool_calls"))

\* lines 99-116: the discriminator
select_tool_calls(msg) == Truthy(DictGet(msg, "tool_calls"))

header_info(fields, msg) ==
  LET t0 == SetKey(SetKey(SetKey(SetKey(EmptyDict, "created", fields.created),
                                 "id", fields.id), "model", fields.model),
                   "role", fields.role)
  IN  IF select_tool_calls(msg)
        THEN SetKey(SetKey(t0, fields.role.s, DictGet(msg, "tool_calls")),
                    "is_tool_calls", JBool(TRUE))
        ELSE SetKey(SetKey(t0, fields.role.s, DictGet(msg, "content")),
                    "is_tool_calls", JBool(FALSE))

\* lines 79-119 as one outcome: the exception, or the locals after line 116
header(buf) ==
  LET fd == first_dict_of(buf)
      msg == IF fd.exc # "" THEN fd ELSE msg_of(buf, fd.v)
      fields == IF msg.exc # "" THEN msg ELSE header_fields(fd.v, msg.v)
  IN  IF fields.exc # "" THEN [exc |-> fields.exc]
      ELSE [exc |-> "",
            target_info |-> header_info(fields.v, msg.v),
            role |-> fields.v.role.s,
            tool_calls |-> DictGet(msg.v, "tool_calls"),
            parse_content_key |->
              IF select_tool_calls(msg.v) THEN "tool_calls" ELSE "content"]

RInit ==
  /\ buffer \in Buffers
  /\ pc = "start"
  /\ txt_lines = <<>>
  /\ stream = FALSE
  /\ target_info = EmptyDict
  /\ role = ""
  /\ tool_calls = None
  /\ parse_content_key = ""
  /\ stream_content = ""
  /\ n = 0
  /\ exc = ""

\* lines 79-119: the header, and the return of a non-streaming response
ParseHeader ==
  /\ pc = "start"
  /\ LET h == header(buffer)
         st == startswith(buffer, "data: ")
     IN  /\ stream' = st
         /\ txt_lines' = IF st THEN parse_sse_buffer(buffer) ELSE <<>>
         /\ IF h.exc # ""
              THEN /\ pc' = "raised"
                   /\ exc' = h.exc
                   /\ UNCHANGED <<target_info, role, tool_calls, parse_content_key>>
              ELSE /\ pc' = IF st THEN "loop" ELSE "returned"
                   /\ exc' = ""
                   /\ target_info' = h.target_info
                   /\ role' = h.role
                   /\ tool_calls' = h.tool_calls
                   /\ parse_content_key' = h.parse_content_key
         /\ n' = 2
  /\ UNCHANGED <<buffer, stream_content>>
  /\ UNCHANGED <<pvars, lvars>>

(* --------------------- _parse_one_line_content ------------------------- *)

\* a handler that lacks the `except JSONDecodeError` clause
caught_without_decode_error(r) ==
  IF r.exc = "KeyError"
    THEN Ok([delta_content |-> JStr(""), usage |-> None])
    ELSE r

\* the value a `try` returns: JSONDecodeError and KeyError are turned into
\* ("", None), lines 166-169; every other exception leaves the function
caught(r) ==
  IF r.exc \in {"JSONDecodeError", "KeyError"}
    THEN Ok([delta_content |-> JStr(""), usage |-> None])
    ELSE r

\* a content branch that reads finish_reason and usage through .get
content_branch_lenient(line_dict) ==
  LET choice == Idx0Of(Sub(line_dict, "choices"))
      delta_content == SubOf(SubOf(choice, "delta"), "content")
  IN  IF delta_content.exc # "" THEN delta_content
      ELSE IF DictGet(choice.v, "finish_reason") = JStr("stop")
        THEN Ok([delta_content |-> delta_content.v, usage |-> DictGet(line_dict, "usage")])
        ELSE Ok([delta_content |-> delta_content.v, usage |-> None])

\* lines 154-159
content_branch(line_dict) ==
  LET choice == Idx0Of(Sub(line_dict, "choices"))
      delta_content == SubOf(SubOf(choice, "delta"), "content")
      finish_reason == Sub(choice.v, "finish_reason")
      usage == Sub(line_dict, "usage")
  IN  IF delta_content.exc # "" THEN delta_content
      ELSE IF finish_reason.exc # "" THEN finish_reason
      ELSE IF finish_reason.v = JStr("stop")
        THEN IF usage.exc # "" THEN usage
             ELSE Ok([delta_content |-> delta_content.v, usage |-> usage.v])
        ELSE Ok([delta_content |-> delta_content.v, usage |-> None])

\* lines 160-162
tool_calls_branch(line_dict) ==
  LET delta == SubOf(Idx0Of(Sub(line_dict, "choices")), "delta")
      tcs == SubOf(delta, "tool_calls")
      arguments == SubOf(SubOf(Idx0Of(tcs), "function"), "arguments")
  IN  IF arguments.exc # "" THEN arguments
      ELSE Ok([delta_content |-> arguments.v, usage |-> None])

parse_one_line_content(line, parse_key) ==
  LET line_dict == orjson_loads(line)
  IN  caught(IF line_dict.exc # "" THEN line_dict
             ELSE IF parse_key = "content" THEN content_branch(line_dict.v)
             ELSE IF parse_key = "tool_calls" THEN tool_calls_branch(line_dict.v)
             ELSE Ok([delta_content |-> JStr(""), usage |-> None]))

(* ------------------- parse_bytearray: the stream loop ------------------ *)

\* an accumulator that puts the increment in front
append_in_front(acc, delta_content) ==
  IF delta_content.t = "str" THEN Ok(JStr(delta_content.s \o acc)) ELSE Raise("TypeError")

\* stream_content += delta_content: a str is appended, anything else is a TypeError
append(acc, delta_content) ==
  IF delta_content.t = "str" THEN Ok(JStr(acc \o delta_content.s)) ELSE Raise("TypeError")

\* line 129: whether line 130 records the usage
records_usage(usage) == Truthy(usage)

\* an assignment under the wrong key
set_usage_over_model(t_info, usage) == SetKey(t_info, "model", usage)

\* line 130: target_info["usage"] = usage
set_usage(t_info, usage) == SetKey(t_info, "usage", usage)

\* lines 123-131, one iteration
ParseLine ==
  /\ pc = "loop"
  /\ n <= Len(txt_lines)
  /\ LET line == txt_lines[n]
         r == parse_one_line_content(after_marker(line), parse_content_key)
         acc == IF r.exc # "" THEN r ELSE append(stream_content, r.v.delta_content)
     IN  IF ~line.marker
           THEN UNCHANGED <<pc, exc, stream_content, target_info>>
           ELSE IF acc.exc # ""
             THEN /\ pc' = "raised"
                  /\ exc' = acc.exc
                  /\ UNCHANGED <<stream_content, target_info>>
             ELSE /\ stream_content' = acc.v.s
                  /\ target_info' = IF records_usage(r.v.usage)
                                      THEN set_usage(target_info, r.v.usage)
                                      ELSE target_info
                  /\ UNCHANGED <<pc, exc>>
  /\ n' = n + 1
  /\ UNCHANGED <<buffer, txt_lines, stream, role, tool_calls, parse_content_key>>
  /\ UNCHANGED <<pvars, lvars>>

\* line 133: tool_calls[0]['function']['arguments'] = stream_content
set_arguments(tcs, text) ==
  LET first == Idx0(tcs)
      fn == SubOf(first, "function")
  IN  IF fn.exc # "" THEN fn
      ELSE IF fn.v.t # "obj" THEN Raise("TypeError")
      ELSE Ok(JList([tcs.l EXCEPT ![1] =
                JObj([first.v.o EXCEPT !["function"] =
                  JObj(SetKey(fn.v.o, "arguments", JStr(text)))])]))

\* a fold that assigns the text whatever the discriminator
finalize_as_text(t_info, key, tcs, text) == Ok(SetKey(t_info, key, JStr(text)))

\* lines 132-137: the accumulator is folded into the result, which is returned
finalize(t_info, key, tcs, text) ==
  IF t_info["is_tool_calls"].b
    THEN LET r == set_arguments(tcs, text)
         IN  IF r.exc # "" THEN r ELSE Ok(SetKey(t_info, key, r.v))
    ELSE Ok(SetKey(t_info, key, JStr(text)))

Finalize ==
  /\ pc = "loop"
  /\ n > Len(txt_lines)
  /\ LET r == finalize(target_info, role, tool_calls, stream_content)
     IN  IF r.exc # ""
           THEN /\ pc' = "raised"
                /\ exc' = r.exc
                /\ UNCHANGED <<target_info, tool_calls>>
           ELSE /\ pc' = "returned"
                /\ target_info' = r.v
                /\ tool_calls' = IF target_info["is_tool_calls"].b
                                   THEN r.v[role] ELSE tool_calls
                /\ UNCHANGED exc
  /\ UNCHANGED <<buffer, txt_lines, stream, role, parse_content_key, stream_content, n>>
  /\ UNCHANGED <<pvars, lvars>>

(* --------------------------- parse_payload ----------------------------- *)

\* orjson.dumps of a JSON value: the text that orjson.loads reads back
orjson_dumps(v) == Doc(v)

\* a .get that forgets its default
get_without_default(d, key, default) == IF key \in DOMAIN d.o THEN d.o[key] ELSE None

\* payload.get(key, default)
get(d, key, default) == IF key \in DOMAIN d.o THEN d.o[key] ELSE default

\* a read of the key that leaves it in the dict
pop_without_removal(d, key, default) == [value |-> get(d, key, default), dict |-> d]

\* payload.pop(key, default): the value, and the dict without the key
pop(d, key, default) ==
  [value |-> get(d, key, default),
   dict |-> JObj([k \in DOMAIN d.o \ {key} |-> d.o[k]])]

\* a required key read with .get
required_with_default(d, key) ==
  IF d.t = "obj" THEN Ok(get(d, key, None)) ELSE Raise("AttributeError")

\* payload[key], lines 41-42
required(d, key) == Sub(d, key)

\* get_client_ip(request) or ""
client_ip(req) == IF Truthy(req.ip) THEN req.ip ELSE JStr("")

\* lines 29-65: the exception, or the two values returned and the payload as
\* line 59 left it
parse_payload(req, uid, now, default_caching) ==
  LET p == req.json
      messages == required(p, "messages")
      model == required(p, "model")
      popped == pop(p, "caching", default_caching)
  IN  IF messages.exc # "" THEN [exc |-> messages.exc]
      ELSE IF model.exc # "" THEN [exc |-> model.exc]
      ELSE [exc |-> "",
            info |->
              [messages |-> messages.v,
               model |-> model.v,
               stream |-> get(p, "stream", JBool(FALSE)),
               max_tokens |-> get(p, "max_tokens", None),
               response_format |-> get(p, "response_format", None),
               n |-> get(p, "n", JNum(1)),
               temperature |-> get(p, "temperature", JNum(1)),
               top_p |-> get(p, "top_p", JNum(1)),
               logit_bias |-> get(p, "logit_bias", None),
               frequency_penalty |-> get(p, "frequency_penalty", JNum(0)),
               presence_penalty |-> get(p, "presence_penalty", JNum(0)),
               seed |-> get(p, "seed", None),
               stop |-> get(p, "stop", None),
               user |-> get(p, "user", None),
               tools |-> get(p, "tools", None),
               tool_choice |-> get(p, "tool_choice", None),
               ip |-> client_ip(req),
               uid |-> JStr(uid),
               caching |-> popped.value,
               datetime |-> JStr(now)],
            payload |-> popped.dict,
            body |-> orjson_dumps(popped.dict)]

\* the keys a request body may set besides messages, model and caching, with
\* the value it sets; "foo" is a key parse_payload does not know
BodyChoices ==
  [messages : {Absent, JList(<<JObj([role |-> JStr("user"), content |-> JStr("hi")])>>)},
   model : {Absent, JStr("gpt-4")},
   caching : {Absent, JBool(TRUE), JBool(FALSE)},
   stream : {Absent, JBool(TRUE)},
   temperature : {Absent, JNum(0)},
   max_tokens : {Absent, JNum(16)},
   foo : {Absent, JStr("bar")}]

RECURSIVE ObjOf(_, _)
\* the object that has the keys of ks that c sets
ObjOf(c, ks) ==
  IF ks = {} THEN EmptyDict
  ELSE LET k == CHOOSE x \in ks : TRUE
       IN  Opt(k, c[k]) @@ ObjOf(c, ks \ {k})

Bodies ==
  {JObj(ObjOf(c, DOMAIN c)) : c \in BodyChoices} \cup {JList(<<>>), JNull}

Requests == [json : Bodies, ip : {JNull, JStr("10.0.0.1")}]
Uids == {"u1", "u2"}

NoInfo == EmptyDict
NoBody == NotJson

PInit ==
  /\ request \in Requests
  /\ next_uid \in Uids
  /\ clock = "2024-01-01 00:00:00"
  /\ DEFAULT_REQUEST_CACHING_VALUE \in {JBool(FALSE), JBool(TRUE)}
  /\ p_pc = "start"
  /\ payload = request.json
  /\ info = NoInfo
  /\ body = NoBody
  /\ p_exc = ""

\* lines 29-65
ParsePayload ==
  /\ p_pc = "start"
  /\ LET r == parse_payload(request, next_uid, clock, DEFAULT_REQUEST_CACHING_VALUE)
     IN  IF r.exc # ""
           THEN /\ p_pc' = "raised"
                /\ p_exc' = r.exc
                /\ UNCHANGED <<payload, info, body>>
           ELSE /\ p_pc' = "returned"
                /\ payload' = r.payload
                /\ info' = r.info
                /\ body' = r.body
                /\ UNCHANGED p_exc
  /\ UNCHANGED <<request, next_uid, clock, DEFAULT_REQUEST_CACHING_VALUE>>
  /\ UNCHANGED <<rvars, lvars>>


(* ---------------------------- start and end --------------------------- *)

\* the bodies of the requests whose trace is started
LoggerRequests ==
  {r \in Requests :
     /\ r.ip = JNull
     /\ r.json.t = "obj"
     /\ "messages" \in DOMAIN r.json.o
     /\ DOMAIN r.json.o \subseteq {"messages", "model", "caching"}
     /\ "caching" \in DOMAIN r.json.o => r.json.o["caching"] = JBool(TRUE)}

\* the results handed to end: two with text, one whose role is not "assistant"
EndResults ==
  {[assistant |-> JStr("r1"), is_tool_calls |-> JBool(FALSE)],
   [assistant |-> JStr("r2"), is_tool_calls |-> JBool(FALSE)],
   [tool |-> JStr("r3"), is_tool_calls |-> JBool(FALSE)]}

NoRequest == [json |-> JNull, ip |-> JNull]
NoResult == EmptyDict

LInit ==
  /\ traces = EmptyDict
  /\ langfuse = <<>>
  /\ flushed = TRUE
  /\ starts = [u \in Uids |-> [pc |-> "new", request |-> NoRequest, uid |-> ""]]
  /\ ends = [u \in Uids |-> [pc |-> "new", exc |-> "", result |-> NoResult]]

\* lines 173-184: langfuse.trace(id=uid) and trace.generation(id=uid, ...)
new_trace(uid, r_info) ==
  [id |-> uid,
   name |-> "chat.completion",
   input |-> r_info.messages,
   model |-> r_info.model,
   metadata |-> [k \in DOMAIN r_info \ {"messages"} |-> r_info[k]],
   ended |-> FALSE, generation_output |-> JNull,
   updated |-> FALSE, trace_output |-> JNull]

\* one slot shared by every request instead of an entry per uid
register_shared(registry, uid, handle) == [u \in DOMAIN registry \cup {uid} |-> handle]

\* line 185: self.traces[uid] = (trace, generation)
register(registry, uid, handle) ==
  [u \in DOMAIN registry \cup {uid} |-> IF u = uid THEN handle ELSE registry[u]]

\* a lookup through .get, whose None cannot be unpacked
lookup_lenient(registry, uid) ==
  IF uid \in DOMAIN registry THEN Ok(JNum(registry[uid])) ELSE Raise("TypeError")

\* line 188: self.traces[uid]
lookup(registry, uid) ==
  IF uid \in DOMAIN registry THEN Ok(JNum(registry[uid])) ELSE Raise("KeyError")

\* lines 171-172, 29-30: start is called, parse_payload draws its unique id and
\* awaits the request body
StartCall(u) ==
  /\ starts[u].pc = "new"
  /\ \E req \in LoggerRequests, g \in Uids :
       starts' = [starts EXCEPT ![u] = [pc |-> "await", request |-> req, uid |-> g]]
  /\ UNCHANGED <<traces, langfuse, flushed, ends>>
  /\ UNCHANGED <<rvars, pvars>>

\* lines 31-65 and 172-185: the body has arrived
StartResume(u) ==
  /\ starts[u].pc = "await"
  /\ LET r == parse_payload(starts[u].request, starts[u].uid, clock,
                            DEFAULT_REQUEST_CACHING_VALUE)
     IN  IF r.exc # ""
           THEN /\ starts' = [starts EXCEPT ![u].pc = "raised"]
                /\ UNCHANGED <<traces, langfuse, flushed>>
           ELSE /\ langfuse' = Append(langfuse, new_trace(u, r.info))
                /\ traces' = register(traces, u, Len(langfuse) + 1)
                /\ flushed' = FALSE
                /\ starts' = [starts EXCEPT ![u].pc = "returned"]
  /\ UNCHANGED ends
  /\ UNCHANGED <<rvars, pvars>>

\* lines 187-192
End(u) ==
  /\ ends[u].pc # "returned"
  /\ \E result \in EndResults :
       LET found == lookup(traces, u)
           output == IF "assistant" \in DOMAIN result
                       THEN Ok(result["assistant"]) ELSE Raise("KeyError")
       IN  IF found.exc # "" \/ output.exc # ""
             THEN /\ ends' = [ends EXCEPT ![u] =
                                [pc |-> "raised",
                                 exc |-> IF found.exc # "" THEN found.exc ELSE output.exc,
                                 result |-> result]]
                  /\ UNCHANGED <<traces, langfuse, flushed>>
             ELSE /\ langfuse' = [langfuse EXCEPT ![found.v.n] =
                                    [@ EXCEPT !.ended = TRUE,
                                              !.generation_output = output.v,
                                              !.updated = TRUE,
                                              !.trace_output = output.v]]
                  /\ flushed' = TRUE
                  /\ ends' = [ends EXCEPT ![u] =
                                [pc |-> "returned", exc |-> "", result |-> result]]
                  /\ UNCHANGED traces
  /\ UNCHANGED starts
  /\ UNCHANGED <<rvars, pvars>>

(* --------------------------- specifications ---------------------------- *)

\* no response is being parsed
RIdle ==
  /\ buffer = <<>> /\ pc = "idle" /\ txt_lines = <<>> /\ stream = FALSE
  /\ target_info = EmptyDict /\ role = "" /\ tool_calls = None
  /\ parse_content_key = "" /\ stream_content = "" /\ n = 0 /\ exc = ""

\* no request is being parsed
PIdle ==
  /\ request = [json |-> JNull, ip |-> JNull] /\ next_uid = "" /\ clock = ""
  /\ DEFAULT_REQUEST_CACHING_VALUE = JBool(FALSE) /\ p_pc = "idle"
  /\ payload = JNull /\ info = NoInfo /\ body = NoBody /\ p_exc = ""

\* the logger is not used
LIdle ==
  /\ traces = EmptyDict /\ langfuse = <<>> /\ flushed = TRUE
  /\ starts = EmptyDict /\ ends = EmptyDict

vars == <<rvars, pvars, lvars>>

\* one response buffer through parse_bytearray
Init == RInit /\ PIdle /\ LIdle
Next == ParseHeader \/ ParseLine \/ Finalize
Spec == Init /\ [][Next]_vars

\* one request through parse_payload
PayloadInit == PInit /\ RIdle /\ LIdle
PayloadNext == ParsePayload
SpecPayload == PayloadInit /\ [][PayloadNext]_vars

\* the shared logger, its start and end calls interleaved
LoggerInit == LInit /\ RIdle /\ PIdle
LoggerNext == \E u \in Uids : StartCall(u) \/ StartResume(u) \/ End(u)
SpecLogger == LoggerInit /\ [][LoggerNext]_vars

(* ------------------- what the claims say of a buffer ------------------- *)

\* the lines that follow the header line
LaterOf(buf) == SubSeq(buf, 2, Len(buf))

\* x has the object path ks (string keys; "0" stands for the index 0 of a list)
RECURSIVE HasPath(_, _)
HasPath(x, ks) ==
  IF ks = <<>> THEN TRUE
  ELSE IF Head(ks) = "0"
    THEN x.t = "list" /\ Len(x.l) > 0 /\ HasPath(x.l[1], Tail(ks))
    ELSE x.t = "obj" /\ Head(ks) \in DOMAIN x.o /\ HasPath(x.o[Head(ks)], Tail(ks))

RECURSIVE AtPath(_, _)
AtPath(x, ks) ==
  IF ks = <<>> THEN x
  ELSE IF Head(ks) = "0" THEN AtPath(x.l[1], Tail(ks))
  ELSE AtPath(x.o[Head(ks)], Tail(ks))

\* the line is a frame (marker and valid JSON) that has a string at the path
HasStrAt(line, ks) ==
  /\ line.marker
  /\ line.text.json
  /\ HasPath(line.text.doc, ks)
  /\ AtPath(line.text.doc, ks).t = "str"

ContentPath == <<"choices", "0", "delta", "content">>
ArgumentsPath == <<"choices", "0", "delta", "tool_calls", "0", "function", "arguments">>
FinishPath == <<"choices", "0", "finish_reason">>

\* the string a line carries at the path, the empty string when it carries none
StrAt(line, ks) == IF HasStrAt(line, ks) THEN AtPath(line.text.doc, ks).s ELSE ""

RECURSIVE ConcatAt(_, _)
ConcatAt(lines, ks) ==
  IF lines = <<>> THEN "" ELSE StrAt(Head(lines), ks) \o ConcatAt(Tail(lines), ks)

\* the line is a frame that reports finish_reason == "stop"
ReportsStop(line) ==
  /\ HasStrAt(line, FinishPath)
  /\ AtPath(line.text.doc, FinishPath).s = "stop"

\* the first frame's message object, for a buffer whose header was accepted
HeaderMsg(buf) ==
  AtPath(buf[1].text.doc, <<"choices", "0", IF buf[1].marker THEN "delta" ELSE "message">>)

Returned == pc = "returned"
IsToolCalls == target_info["is_tool_calls"].b
ResultField == target_info[role]

(* ------------------------------ claims --------------------------------- *)

\* C1 covers a later line that is a frame with a string delta content, a frame
\* that is not valid JSON, or a line without the marker
C1_Covers(line) == ~line.marker \/ ~line.text.json \/ HasStrAt(line, ContentPath)

\* C1: in content mode the text accumulated from the lines after the header is
\* the concatenation, in order, of each frame's choices[0].delta.content, with
\* undecodable frames and unmarked lines contributing the empty string.
C1_ContentIsConcatenation ==
  (/\ Returned /\ stream /\ ~IsToolCalls
   /\ \A i \in 2..Len(buffer) : C1_Covers(buffer[i]))
  => ResultField = JStr(ConcatAt(LaterOf(buffer), ContentPath))

\* C2: the content of the header frame is part of the result: the final content
\* is the header's content followed by the increments of the later frames.
C2_HeaderContentKept ==
  (/\ Returned /\ stream /\ ~IsToolCalls
   /\ DictGet(HeaderMsg(buffer), "content").t = "str")
  => ResultField = JStr(DictGet(HeaderMsg(buffer), "content").s \o stream_content)

\* C3: a streaming result has a usage field exactly when some frame reported
\* finish_reason == "stop", and the usage is that of such a frame.
C3_UsageIffStop ==
  (Returned /\ stream)
  => /\ ("usage" \in DOMAIN target_info)
          <=> (\E i \in 2..Len(buffer) : ReportsStop(buffer[i]))
     /\ ("usage" \in DOMAIN target_info)
          => \E i \in 2..Len(buffer) :
               /\ ReportsStop(buffer[i])
               /\ HasPath(buffer[i].text.doc, <<"usage">>)
               /\ target_info["usage"] = buffer[i].text.doc.o["usage"]

\* the first frame carries a populated tool-call list
HeaderHasToolCalls(buf) ==
  LET tcs == DictGet(HeaderMsg(buf), "tool_calls")
  IN  tcs.t = "list" /\ Len(tcs.l) > 0

HeaderToolCallsOf(buf) == DictGet(HeaderMsg(buf), "tool_calls").l

\* entry e is entry h with its function.arguments replaced by the string a
SameButArguments(e, h, a) ==
  /\ e.t = "obj" /\ DOMAIN e.o = DOMAIN h.o
  /\ \A k \in DOMAIN h.o \ {"function"} : e.o[k] = h.o[k]
  /\ e.o["function"].t = "obj"
  /\ DOMAIN e.o["function"].o = DOMAIN h.o["function"].o \cup {"arguments"}
  /\ \A k \in DOMAIN h.o["function"].o \ {"arguments"} :
       e.o["function"].o[k] = h.o["function"].o[k]
  /\ e.o["function"].o["arguments"] = JStr(a)

\* C4 as stated: the result of a tool-call stream is a one-element tool-call
\* list whose entry has the concatenated fragments as arguments and the first
\* frame's other fields, with is_tool_calls true and no text.
C4_OneElementToolCallList ==
  (Returned /\ stream /\ HeaderHasToolCalls(buffer))
  => /\ IsToolCalls
     /\ ResultField.t = "list"
     /\ Len(ResultField.l) = 1
     /\ SameButArguments(ResultField.l[1], HeaderToolCallsOf(buffer)[1],
                         ConcatAt(LaterOf(buffer), ArgumentsPath))

\* C4 (amended): the result of a tool-call stream is the first frame's tool-call
\* list, entry for entry, with only the first entry's function.arguments
\* replaced by the concatenation, in arrival order, of the later frames'
\* fragments; is_tool_calls is true and the field holds no text.
C4_ToolCallArguments ==
  (Returned /\ stream /\ HeaderHasToolCalls(buffer))
  => /\ IsToolCalls
     /\ ResultField.t = "list"
     /\ Len(ResultField.l) = Len(HeaderToolCallsOf(buffer))
     /\ \A j \in 2..Len(ResultField.l) : ResultField.l[j] = HeaderToolCallsOf(buffer)[j]
     /\ SameButArguments(ResultField.l[1], HeaderToolCallsOf(buffer)[1],
                         ConcatAt(LaterOf(buffer), ArgumentsPath))

\* two fragments were folded, in order, into the first entry of a two-entry list
C4_Witness ==
  /\ Returned /\ stream /\ HeaderHasToolCalls(buffer)
  /\ Len(ResultField.l) = 2
  /\ \A i \in 2..Len(buffer) : HasStrAt(buffer[i], ArgumentsPath)
  /\ ResultField.l[1].o["function"].o["arguments"] = JStr("{a:1}")

\* C5: a non-streaming result mirrors the document: the content or tool-call
\* list of choices[0].message, and the document's usage when it reports one.
C5_PlainMirrorsDocument ==
  (Returned /\ ~stream)
  => /\ ResultField = IF HeaderHasToolCalls(buffer)
                        THEN DictGet(HeaderMsg(buffer), "tool_calls")
                        ELSE DictGet(HeaderMsg(buffer), "content")
     /\ HasPath(buffer[1].text.doc, <<"usage">>)
          => /\ "usage" \in DOMAIN target_info
             /\ target_info["usage"] = buffer[1].text.doc.o["usage"]

\* the first frame has everything lines 84-116 and 133 read
HeaderWellFormed(buf) ==
  /\ buf[1].text.json
  /\ \A k \in {"created", "id", "model"} : HasPath(buf[1].text.doc, <<k>>)
  /\ HasPath(buf[1].text.doc,
             <<"choices", "0", IF buf[1].marker THEN "delta" ELSE "message", "role">>)
  /\ HeaderHasToolCalls(buf)
       => /\ HasPath(HeaderToolCallsOf(buf)[1], <<"function">>)
          /\ HeaderToolCallsOf(buf)[1].o["function"].t = "obj"

\* C6: after a well-formed header, no later frame makes parse_bytearray raise.
C6_LaterFramesNeverRaise ==
  (buffer[1].marker /\ HeaderWellFormed(buffer)) => pc # "raised"

\* C7 as stated: a first frame that is not valid JSON is the only hard
\* failure, so parse_bytearray raises in no other case.
C7_OnlyHardFailure == pc = "raised" => ~buffer[1].text.json

\* C7 (amended): a first frame that is not valid JSON makes parse_bytearray
\* raise a decoding error before anything is put in the result, and a decoding
\* error leaves parse_bytearray in no other case: that of a later frame is
\* absorbed.
C7_FirstFrameDecodeError ==
  /\ (pc # "start" /\ ~buffer[1].text.json)
       => (pc = "raised" /\ exc = "JSONDecodeError" /\ DOMAIN target_info = {})
  /\ exc = "JSONDecodeError" => ~buffer[1].text.json

\* the first frame was not JSON and the call raised
C7_Witness == pc = "raised" /\ exc = "JSONDecodeError" /\ ~buffer[1].text.json

\* C8: in a returned result the flag and the field agree: a tool-call list
\* under is_tool_calls, text or nothing otherwise.
C8_ContentXorToolCalls ==
  Returned
  => /\ IsToolCalls => (ResultField.t = "list" /\ Len(ResultField.l) > 0)
     /\ ~IsToolCalls => ResultField.t \in {"str", "null"}
     /\ IsToolCalls <=> HeaderHasToolCalls(buffer)

\* a stream returned a tool-call list after frames were accumulated
C8_Witness ==
  /\ Returned /\ stream /\ IsToolCalls /\ ResultField.t = "list"
  /\ stream_content # ""

(* ----------------------- claims on parse_payload ----------------------- *)

PReturned == p_pc = "returned"
InputBody == request.json
HasKey(d, k) == d.t = "obj" /\ k \in DOMAIN d.o

\* C9: parse_payload takes 'caching' out of the body and returns its value;
\* the bytes it returns decode to every other key of the input with its value;
\* without 'caching' the value is the configured default and the bytes decode
\* to the input body.
C9_CachingPopped ==
  PReturned
  => LET out == orjson_loads(body)
     IN  /\ out.exc = "" /\ out.v.t = "obj"
         /\ DOMAIN out.v.o = DOMAIN InputBody.o \ {"caching"}
         /\ \A k \in DOMAIN out.v.o : out.v.o[k] = InputBody.o[k]
         /\ payload = out.v
         /\ HasKey(InputBody, "caching") => info.caching = InputBody.o["caching"]
         /\ ~HasKey(InputBody, "caching")
              => (info.caching = DEFAULT_REQUEST_CACHING_VALUE /\ out.v = InputBody)

\* a body with 'caching' against the default, and a key parse_payload ignores
C9_Witness ==
  /\ PReturned
  /\ HasKey(InputBody, "caching") /\ HasKey(InputBody, "foo")
  /\ InputBody.o["caching"] # DEFAULT_REQUEST_CACHING_VALUE
  /\ info.caching = InputBody.o["caching"]
  /\ ~HasKey(payload, "caching")

\* C10: a body without 'messages' or without 'model' makes parse_payload raise
\* (KeyError; TypeError when the body is no object); nothing is returned and
\* the body is left as it was.
C10_RequiredFields ==
  (p_pc \in {"returned", "raised"}
     /\ (~HasKey(InputBody, "messages") \/ ~HasKey(InputBody, "model")))
  => /\ p_pc = "raised"
     /\ p_exc = IF InputBody.t = "obj" THEN "KeyError" ELSE "TypeError"
     /\ info = NoInfo /\ body = NoBody
     /\ payload = InputBody

\* 'model' alone is missing, of a body that sets 'caching'
C10_Witness ==
  /\ p_pc = "raised" /\ p_exc = "KeyError"
  /\ HasKey(InputBody, "messages") /\ ~HasKey(InputBody, "model")
  /\ HasKey(payload, "caching")

\* C11: for a body that sets only 'messages' and 'model', parse_payload returns
\* and every optional field of the RequestInfo has its default; a body that
\* has both required keys never makes parse_payload raise, whatever optional
\* keys it leaves out.
C11_OptionalDefaults ==
  /\ (PReturned /\ InputBody.t = "obj" /\ DOMAIN InputBody.o = {"messages", "model"})
       => /\ info.stream = JBool(FALSE)
          /\ info.n = JNum(1)
          /\ info.temperature = JNum(1)
          /\ info.top_p = JNum(1)
          /\ info.frequency_penalty = JNum(0)
          /\ info.presence_penalty = JNum(0)
          /\ info.caching = DEFAULT_REQUEST_CACHING_VALUE
          /\ \A k \in {"max_tokens", "response_format", "logit_bias", "seed", "stop",
                       "user", "tools", "tool_choice"} : info[k] = JNull
          /\ info.messages = InputBody.o["messages"]
          /\ info.model = InputBody.o["model"]
  /\ (p_pc \in {"returned", "raised"}
        /\ HasKey(InputBody, "messages") /\ HasKey(InputBody, "model"))
       => p_pc = "returned"

\* a body with the two required keys alone was parsed, under a default of true
C11_Witness ==
  /\ PReturned
  /\ InputBody.t = "obj" /\ DOMAIN InputBody.o = {"messages", "model"}
  /\ DEFAULT_REQUEST_CACHING_VALUE = JBool(TRUE)
  /\ info.caching = JBool(TRUE)
  /\ info.n = JNum(1)

(* ------------------------------ the logger ----------------------------- *)

Handles == 1..Len(langfuse)
Delivered(h) == langfuse[h].ended \/ langfuse[h].updated

\* C12: however the start and end calls of distinct request ids interleave, a
\* trace or generation that received an output is the one start(uid) created
\* and registered for the uid end was called with, and the output is the
\* 'assistant' value of that end call's result; every end that returned
\* delivered to the pair of its own uid.
C12_EndReachesOwnTrace ==
  /\ \A h \in Handles :
       Delivered(h) =>
         LET u == langfuse[h].id
         IN  /\ ends[u].pc = "returned"
             /\ u \in DOMAIN traces /\ traces[u] = h
             /\ langfuse[h].ended /\ langfuse[h].updated
             /\ langfuse[h].generation_output = ends[u].result["assistant"]
             /\ langfuse[h].trace_output = ends[u].result["assistant"]
  /\ \A u \in Uids :
       ends[u].pc = "returned" =>
         /\ u \in DOMAIN traces
         /\ langfuse[traces[u]].id = u
         /\ Delivered(traces[u])

C12_Witness ==
  /\ Len(langfuse) = 2
  /\ langfuse[1].id = "u2" /\ langfuse[2].id = "u1"
  /\ ends["u1"].pc = "returned" /\ ends["u2"].pc = "returned"
  /\ langfuse[1].generation_output = JStr("r2")
  /\ langfuse[2].trace_output = JStr("r1")

\* C16: the 'uid' in the metadata of every trace start created equals the id
\* the trace and generation were created with, which is the key end finds
\* them by.
C16_MetadataUidIsKey ==
  /\ \A h \in Handles : langfuse[h].metadata["uid"] = JStr(langfuse[h].id)
  /\ \A u \in DOMAIN traces : langfuse[traces[u]].metadata["uid"] = JStr(u)

\* C18: an end(uid) call made before start(uid) was called, while it is
\* suspended, or after it raised, raises KeyError, creates or updates nothing
\* at the backend, does not flush and leaves the registry as it was; so an end
\* that returns follows a start that returned.
C18_EndNeedsCompletedStart ==
  [][\A u \in Uids :
       (ends'[u] # ends[u] /\ starts[u].pc # "returned")
         => /\ ends'[u].pc = "raised" /\ ends'[u].exc = "KeyError"
            /\ UNCHANGED <<traces, langfuse, flushed>>]_vars

C18_Witness ==
  /\ starts["u1"].pc = "await"
  /\ ends["u1"].pc = "raised" /\ ends["u1"].exc = "KeyError"
  /\ "assistant" \in DOMAIN ends["u1"].result
  /\ starts["u2"].pc = "returned"
  /\ DOMAIN traces = {"u2"}
  /\ ~Delivered(1)

(* ----------------------- the stream loop, by step ---------------------- *)

\* the step about to be taken is an iteration of the loop, on txt_lines[n]
AtLine == pc = "loop" /\ n <= Len(txt_lines)

\* the step changes the usage of the result
WritesUsage ==
  /\ "usage" \in DOMAIN target_info'
  /\ "usage" \in DOMAIN target_info => target_info'["usage"] # target_info["usage"]

\* C13: in a streaming reconstruction every change of the result's usage is
\* made by a frame that reports finish_reason 'stop', and is the first one:
\* no frame changes a usage that an earlier frame has written.
C13_UsageWrittenOnce ==
  [][(AtLine /\ WritesUsage)
       => /\ ReportsStop(txt_lines[n])
          /\ "usage" \notin DOMAIN target_info]_vars

Populated(v) == Truthy(v)

\* C14 as stated: tool-calls is the discriminator exactly when the first
\* frame's tool_calls is populated and its content is not.
C14_ContentFirst ==
  pc \in {"loop", "returned"}
    => (IsToolCalls <=> /\ Populated(DictGet(HeaderMsg(buffer), "tool_calls"))
                        /\ ~Populated(DictGet(HeaderMsg(buffer), "content")))

\* C14: tool-calls is the discriminator exactly when the first frame's
\* tool_calls is a non-empty list, whatever its content; the result field then
\* holds that list and, in a stream, later frames are read for tool_calls.
\* Otherwise content is the discriminator and the field holds the content.
C14_ToolCallsFirst ==
  pc \in {"loop", "returned"}
    => /\ IsToolCalls <=> Populated(DictGet(HeaderMsg(buffer), "tool_calls"))
       /\ parse_content_key = IF IsToolCalls THEN "tool_calls" ELSE "content"
       /\ (pc = "loop" \/ ~stream)
            => ResultField = DictGet(HeaderMsg(buffer),
                                     IF IsToolCalls THEN "tool_calls" ELSE "content")

C14_Witness ==
  /\ pc = "loop"
  /\ DictGet(HeaderMsg(buffer), "content") = JStr("Hel")
  /\ HeaderHasToolCalls(buffer)
  /\ IsToolCalls
  /\ parse_content_key = "tool_calls"

\* C15: an iteration of the loop leaves id, model, created, role, is_tool_calls
\* and every other key of the result but usage as they were, and the
\* discriminator with them, whatever the frame carries; it changes only the
\* accumulator and usage.
C15_HeaderFixed ==
  [][AtLine
       => /\ DOMAIN target_info' \ {"usage"} = DOMAIN target_info \ {"usage"}
          /\ \A k \in DOMAIN target_info \ {"usage"} : target_info'[k] = target_info[k]
          /\ role' = role
          /\ tool_calls' = tool_calls
          /\ parse_content_key' = parse_content_key]_vars

\* the frame of line n carries header fields and a role of its own
CarriesHeaderFields(line) ==
  /\ line.marker /\ line.text.json
  /\ HasPath(line.text.doc, <<"id">>)
  /\ HasPath(line.text.doc, <<"choices", "0", "delta", "role">>)

C15_Witness ==
  /\ pc = "returned" /\ stream
  /\ Len(buffer) = 3
  /\ CarriesHeaderFields(buffer[2])
  /\ ReportsStop(buffer[3])
  /\ "usage" \in DOMAIN target_info
  /\ target_info["id"] = JStr("x")
  /\ target_info["role"] = JStr("assistant")
  /\ ResultField = JStr("lolo")

\* the frame has everything the content branch reads
Full(line) ==
  /\ line.marker /\ line.text.json
  /\ HasPath(line.text.doc, ContentPath)
  /\ HasPath(line.text.doc, FinishPath)
  /\ AtPath(line.text.doc, FinishPath) = JStr("stop") => HasPath(line.text.doc, <<"usage">>)

\* C17: in content mode a frame that lacks the delta content, the finish_reason
\* key or, when it reports 'stop', the usage key changes neither the accumulator
\* nor the usage, and one that has a delta content does so without an
\* exception; a frame that has all of them and a string content appends that
\* content; usage is changed only by a frame whose content is appended.
C17_AllOrNothing ==
  [][(AtLine /\ parse_content_key = "content" /\ txt_lines[n].marker)
       => LET line == txt_lines[n]
          IN  /\ (~Full(line) /\ pc' = "loop")
                   => stream_content' = stream_content /\ target_info' = target_info
              /\ (~Full(line) /\ HasPath(line.text.doc, ContentPath)) => pc' = "loop"
              /\ (Full(line) /\ HasStrAt(line, ContentPath))
                   => /\ pc' = "loop"
                      /\ stream_content' = stream_content \o StrAt(line, ContentPath)
              /\ WritesUsage
                   => /\ Full(line) /\ HasStrAt(line, ContentPath)
                      /\ target_info'["usage"] = AtPath(line.text.doc, <<"usage">>)]_vars

C17_Witness ==
  /\ pc = "returned" /\ stream /\ ~IsToolCalls
  /\ Len(buffer) = 3
  /\ HasStrAt(buffer[2], ContentPath) /\ StrAt(buffer[2], ContentPath) = "lo"
  /\ ~HasPath(buffer[2].text.doc, FinishPath)
  /\ Full(buffer[3]) /\ StrAt(buffer[3], ContentPath) = "lo"
  /\ ResultField = JStr("lo")
  /\ "usage" \in DOMAIN target_info

====
